---- MODULE Spec2Model ----
(***************************************************************************)
(* SmartQueue, the "delayed" FIFO queue with a ticket system               *)
(* (src/unnamed/part_000).  One instance of the class is modelled: its     *)
(* private fields, the timers it arms with setTimeout, the clock read by   *)
(* Date.now(), and one action per public method, per timer callback and    *)
(* per clock tick.  Every public method runs to completion in one step,    *)
(* as JavaScript runs it on its single thread.                             *)
(***************************************************************************)
EXTENDS Integers, Sequences, FiniteSets, TLC

(***************************************************************************)
(* Bounds of the model.                                                    *)
(***************************************************************************)
\* no call is made that would issue a ticket number above MaxTicket
MaxTicket == 2
\* the clock runs from 0 to MaxTime
MaxTime == 2

\* largest opt.limit an instance is constructed with (besides Infinity)
MaxLimit == MaxTicket
\* the finite lifetimes, in clock ticks, given to the constructor and to getTicket
Lifetimes == {1}
\* no call is made that would leave more than this many timers pending
MaxTimers == MaxTicket
\* next() is not called once the cursor is past every ticket that can exist
MaxCursor == MaxTicket + 1
\* depth of the JavaScript call stack left to next() when it is called: more
\* than the longest run of ticket numbers next() can skip
StackDepth == MaxCursor + 2

\* the number Infinity, the default of _clientLimit and _ticketLifetime
Infinity == -1

(***************************************************************************)
(* JavaScript values.                                                      *)
(***************************************************************************)
Undefined == [k |-> "undefined"]
Null == [k |-> "null"]
Num(n) == [k |-> "number", n |-> n]
Str(s) == [k |-> "string", s |-> s]
Bool(b) == [k |-> "boolean", b |-> b]
\* the object literal {id: ..., value: ...}
Obj(id, value) == [k |-> "object", id |-> id, value |-> value]
\* new Error(message)
Error(message) == [k |-> "Error", message |-> message]
\* the handle setTimeout returned for the timer of ticket h, armed since the last reset
Timeout(h) == [k |-> "Timeout", h |-> h]
\* an exception leaving the method
Throw(name) == [k |-> "throw", name |-> name]

\* the payloads clients join with
Payloads == {Str("a"), Num(1)}

\* a + b and a >= b on numbers that may be Infinity
Plus(a, b) == IF a = Infinity \/ b = Infinity THEN Infinity ELSE a + b
Geq(a, b) == IF a = Infinity THEN TRUE ELSE IF b = Infinity THEN FALSE ELSE a >= b

Digits == <<"0", "1", "2", "3", "4", "5", "6", "7", "8", "9">>

RECURSIVE DecimalString(_)
DecimalString(n) ==
    IF n < 10 THEN Digits[n + 1]
    ELSE DecimalString(n \div 10) \o Digits[(n % 10) + 1]

\* XP.toString(id), and the property key a value becomes in self._queue[value]
toString(v) ==
    CASE v.k = "number" -> DecimalString(v.n)
      [] v.k = "string" -> v.s
      [] OTHER -> v.k

isVoid(v) == v.k \in {"undefined", "null"}
isNumeric(v) == v.k = "number"
toNumber(v) == IF v.k = "number" THEN v.n ELSE 0

(***************************************************************************)
(* The instance and its environment.                                       *)
(***************************************************************************)
VARIABLES
    _status,          \* 'empty' | 'filling' | 'full' | 'finished'
    _queue,           \* property key -> client {status, expiresAt, id, value, expHandler}
    _ticketNumber,    \* the number of the last issued ticket
    _currentTicket,   \* the ticket number of the current client
    _clientLimit,     \* opt.limit, or Infinity
    _ticketLifetime,  \* opt.lifetime, or Infinity
    _handler,         \* "mock" (XP.mock()) or "custom" (opt.handler)
    timers,           \* pending setTimeout callbacks: {[ticket, at, stale]}
    now,              \* Date.now()
    op,               \* the last event: the public method called, "timer" or "tick"
    ret,              \* what that call returned
    handlerCalls,     \* the (error, status) pairs that call passed to _handler
    cbCalls,          \* the (error, status) pairs that call passed to cb
    justIssued,       \* the numbers getTicket allocated during that call
    issued,           \* the numbers allocated since the last reset
    issuedEver,       \* the numbers allocated since construction
    attached,         \* the tickets whose join succeeded since the last reset
    evicted,          \* ticket -> expiresAt, for the clients their own timer removed
    served,           \* the ids next() returned since the last reset, and whether with a value
    scn               \* how far the calls since construction follow issue*, join*, next*

vars == <<_status, _queue, _ticketNumber, _currentTicket, _clientLimit,
          _ticketLifetime, _handler, timers, now, op, ret, handlerCalls,
          cbCalls, justIssued, issued, issuedEver, attached, evicted, served, scn>>

\* the instance as a record, with the calls made so far in the running method
Self ==
    [status |-> _status, queue |-> _queue, ticketNumber |-> _ticketNumber,
     currentTicket |-> _currentTicket, clientLimit |-> _clientLimit,
     ticketLifetime |-> _ticketLifetime, timers |-> timers,
     handlerCalls |-> <<>>, cbCalls |-> <<>>, justIssued |-> <<>>]

EmptyQueue == [key \in {} |-> Null]

\* get _clientNumber
_clientNumber(o) == Cardinality(DOMAIN o.queue)

\* self._queue[ticket]
Lookup(o, ticket) ==
    IF toString(ticket) \in DOMAIN o.queue THEN o.queue[toString(ticket)] ELSE Undefined

_error(o, err, cb) ==
    [o EXCEPT !.handlerCalls = Append(@, [err |-> Error(err), status |-> o.status]),
              !.cbCalls = IF cb THEN Append(@, [err |-> Error(err), status |-> o.status])
                          ELSE @]

\* mutant: the limit is compared with > instead of >=
_checkAvailability_gt(o, cb) ==
    IF _clientNumber(o) # o.clientLimit /\ Geq(_clientNumber(o), o.clientLimit)
    THEN [o |-> _error([o EXCEPT !.status = "full"], "The queue has reached its limit.", cb),
          ret |-> FALSE]
    ELSE [o |-> o, ret |-> TRUE]

_checkAvailability(o, cb) ==
    IF Geq(_clientNumber(o), o.clientLimit)
    THEN [o |-> _error([o EXCEPT !.status = "full"], "The queue has reached its limit.", cb),
          ret |-> FALSE]
    ELSE [o |-> o, ret |-> TRUE]

\* setTimeout(function () { self._removeClient(ticket); }, timeout): a pending
\* timer is known by its ticket and by the number of resets since it was armed
\* (stale), which no two pending timers share
setTimeout(pending, ticket, timeout, t) ==
    pending \cup {[ticket |-> ticket, at |-> t + timeout, stale |-> 0]}

_createClient(o, ticket, lifetime, t) ==
    LET timeout == lifetime
        client == [status |-> "missing", expiresAt |-> Plus(t, timeout),
                   id |-> ticket, value |-> Null,
                   expHandler |-> IF timeout # Infinity THEN Timeout(ticket) ELSE Undefined]
        key == DecimalString(ticket)
    IN [o EXCEPT !.queue = [x \in DOMAIN o.queue \cup {key} |->
                               IF x = key THEN client ELSE o.queue[x]],
                 !.timers = IF timeout # Infinity
                            THEN setTimeout(@, ticket, timeout, t)
                            ELSE @]

\* mutant: a ticket is valid whenever its client is in the queue
_validateTicket_presence(o, ticket, t) ==
    Lookup(o, ticket) # Undefined

_validateTicket(o, ticket, t) ==
    LET client == Lookup(o, ticket)
    IN IF client # Undefined THEN Geq(client.expiresAt, t) ELSE FALSE

\* clearTimeout(handle)
clearTimeout(pending, handle) ==
    IF handle.k = "Timeout"
    THEN {x \in pending : ~(x.ticket = handle.h /\ x.stale = 0)}
    ELSE pending

_setClient(o, ticket, value, cb, t) ==
    LET curr == Lookup(o, ticket)
        key == toString(ticket)
    IN IF ~_validateTicket(o, ticket, t)
       THEN [o |-> _error(o, "Ticket No. " \o toString(ticket) \o " has expired.", cb),
             ret |-> Bool(FALSE)]
       ELSE [o |-> [o EXCEPT !.timers = clearTimeout(@, curr.expHandler),
                             !.status = "filling",
                             !.queue[key] = [curr EXCEPT !.value = value,
                                                         !.id = toNumber(ticket),
                                                         !.status = "pending",
                                                         !.expHandler = Null]],
             ret |-> Bool(TRUE)]

\* mutant: the client is not removed
_removeClient_noop(o, id) ==
    o

_removeClient(o, id) ==
    [o EXCEPT !.queue = [x \in DOMAIN o.queue \ {toString(Num(id))} |-> o.queue[x]]]

_simplifyClient(client) ==
    IF client = Undefined THEN Throw("TypeError")
    ELSE Obj(client.id, client.value)

\* mutant: only the clients that have joined are shown
queue_filledOnly(o) ==
    LET filled == {o.queue[x] : x \in {y \in DOMAIN o.queue : o.queue[y].status # "missing"}}
    IN [key \in {toString(Num(client.id)) : client \in filled} |->
           (CHOOSE client \in filled : toString(Num(client.id)) = key).value]

\* the public property queue
queue(o) ==
    LET keys == {toString(Num(o.queue[x].id)) : x \in DOMAIN o.queue}
    IN [key \in keys |->
           (CHOOSE client \in {o.queue[x] : x \in DOMAIN o.queue} :
                toString(Num(client.id)) = key).value]

Max(S) == CHOOSE x \in S : \A y \in S : y <= x

current(o, cb) ==
    IF o.status # "finished"
    THEN [o |-> o, ret |-> _simplifyClient(Lookup(o, Num(o.currentTicket)))]
    ELSE [o |-> _error(o, "The queue is empty", cb), ret |-> Undefined]

\* mutant: the cursor stays on a client that is missing, to return it again
RECURSIVE next_staysOnMissing(_, _, _)
next_staysOnMissing(o, cb, depth) ==
    IF depth = 0 THEN [o |-> o, ret |-> Throw("RangeError")]
    ELSE
    LET o1 == [o EXCEPT !.currentTicket = @ + 1]
        nxt == Lookup(o1, Num(o1.currentTicket))
        o2 == _removeClient(o1, o1.currentTicket - 1)
        finished == [err |-> Null, status |-> "finished"]
    IN IF _clientNumber(o2) = 0
       THEN [o |-> [o2 EXCEPT !.status = "empty",
                              !.handlerCalls = Append(@, finished),
                              !.cbCalls = IF cb THEN Append(@, finished) ELSE @],
             ret |-> Undefined]
       ELSE IF nxt = Undefined
       THEN next_staysOnMissing(o2, cb, depth - 1)
       ELSE [o |-> IF isVoid(nxt.value)
                   THEN _error([o2 EXCEPT !.currentTicket = @ - 1],
                               "Client No. " \o DecimalString(o2.currentTicket)
                                   \o " is missing.", cb)
                   ELSE o2,
             ret |-> _simplifyClient(nxt)]

\* mutant: the status is left 'finished' when the queue has emptied
RECURSIVE next_staysFinished(_, _, _)
next_staysFinished(o, cb, depth) ==
    IF depth = 0 THEN [o |-> o, ret |-> Throw("RangeError")]
    ELSE
    LET o1 == [o EXCEPT !.currentTicket = @ + 1]
        nxt == Lookup(o1, Num(o1.currentTicket))
        o2 == _removeClient(o1, o1.currentTicket - 1)
        finished == [err |-> Null, status |-> "finished"]
    IN IF _clientNumber(o2) = 0
       THEN [o |-> [o2 EXCEPT !.status = "finished",
                              !.handlerCalls = Append(@, finished),
                              !.cbCalls = IF cb THEN Append(@, finished) ELSE @],
             ret |-> Undefined]
       ELSE IF nxt = Undefined
       THEN next_staysFinished(o2, cb, depth - 1)
       ELSE [o |-> IF isVoid(nxt.value)
                   THEN _error(o2, "Client No. " \o DecimalString(o2.currentTicket)
                                      \o " is missing.", cb)
                   ELSE o2,
             ret |-> _simplifyClient(nxt)]

RECURSIVE next(_, _, _)
next(o, cb, depth) ==
    IF depth = 0 THEN [o |-> o, ret |-> Throw("RangeError")]
    ELSE
    LET o1 == [o EXCEPT !.currentTicket = @ + 1]
        nxt == Lookup(o1, Num(o1.currentTicket))
        o2 == _removeClient(o1, o1.currentTicket - 1)
        finished == [err |-> Null, status |-> "finished"]
    IN IF _clientNumber(o2) = 0
       THEN [o |-> [o2 EXCEPT !.status = "empty",
                              !.handlerCalls = Append(@, finished),
                              !.cbCalls = IF cb THEN Append(@, finished) ELSE @],
             ret |-> Undefined]
       ELSE IF nxt = Undefined
       THEN next(o2, cb, depth - 1)
       ELSE [o |-> IF isVoid(nxt.value)
                   THEN _error(o2, "Client No. " \o DecimalString(o2.currentTicket)
                                      \o " is missing.", cb)
                   ELSE o2,
             ret |-> _simplifyClient(nxt)]

\* mutant: the incremented ticket number is not stored
getTicket_noStore(o, lifetime, cb, t) ==
    LET life == IF toNumber(lifetime) # 0 THEN toNumber(lifetime) ELSE o.ticketLifetime
        avail == _checkAvailability(o, cb)
        number == avail.o.ticketNumber + 1
    IN IF avail.ret
       THEN [o |-> _createClient([avail.o EXCEPT !.justIssued = Append(@, number)],
                                 number, life, t),
             ret |-> Num(number)]
       ELSE [o |-> avail.o, ret |-> Undefined]

getTicket(o, lifetime, cb, t) ==
    LET life == IF toNumber(lifetime) # 0 THEN toNumber(lifetime) ELSE o.ticketLifetime
        avail == _checkAvailability(o, cb)
        number == avail.o.ticketNumber + 1
    IN IF avail.ret
       THEN [o |-> _createClient([avail.o EXCEPT !.ticketNumber = number,
                                                  !.justIssued = Append(@, number)],
                                 number, life, t),
             ret |-> Num(number)]
       ELSE [o |-> avail.o, ret |-> Undefined]

RECURSIVE join(_, _, _, _, _)
join(o, ticket, data, cb, t) ==
    IF isNumeric(ticket) /\ ~isVoid(data)
    THEN _setClient(o, ticket, data, cb, t)
    ELSE LET avail == _checkAvailability(o, cb)
             got == getTicket(avail.o, Undefined, FALSE, t)
         IN IF avail.ret
            THEN join(got.o, got.ret, ticket, cb, t)
            ELSE [o |-> avail.o, ret |-> Undefined]

\* mutant: the ticket counter is not reset
reset_keepsCounter(o) ==
    [o EXCEPT !.status = "empty", !.queue = EmptyQueue, !.currentTicket = 0]

reset(o) ==
    [o EXCEPT !.status = "empty", !.queue = EmptyQueue,
              !.ticketNumber = 0, !.currentTicket = 0]


(***************************************************************************)
(* The plain variant of the class, without ticket lifetimes                *)
(* (src/lib/index.js).  It has the fields of the delayed variant but the   *)
(* lifetime, the same variables hold them, and its clients are             *)
(* {status, id, value}.  Its handler is called with the error alone.       *)
(***************************************************************************)
\* self._handler(err)
lib_handler(o, err) ==
    [o EXCEPT !.handlerCalls = Append(@, [err |-> err])]

lib_checkAvailability(o) ==
    IF Geq(_clientNumber(o), o.clientLimit)
    THEN lib_handler(o, Error("Please stand by, the queue has reached its limit"))
    ELSE o

\* XP.withdraw(self._queue, key)
withdraw(o, key) ==
    [o EXCEPT !.queue = [x \in DOMAIN o.queue \ {key} |-> o.queue[x]]]

\* a client object as a value a method returns
Client(client) ==
    [k |-> "object", status |-> client.status, id |-> client.id, value |-> client.value]

lib_current(o) ==
    IF o.status # "finished"
    THEN [o |-> o,
          ret |-> IF Lookup(o, Num(o.currentTicket)) = Undefined THEN Undefined
                  ELSE Client(Lookup(o, Num(o.currentTicket)))]
    ELSE [o |-> lib_handler(o, Error("The queue is empty")), ret |-> Undefined]

lib_next(o) ==
    LET curr == Lookup(o, Num(o.currentTicket))
        o1 == [o EXCEPT !.currentTicket = @ + 1]
        nxt == Lookup(o1, Num(o1.currentTicket))
        o2 == IF curr # Undefined
              THEN withdraw(o1, toString(Num(o1.currentTicket)))
              ELSE o1
        key == toString(Num(o1.currentTicket))
    IN IF nxt = Undefined
       THEN [o |-> [lib_handler(o2, Undefined) EXCEPT !.status = "finished"],
             ret |-> Undefined]
       ELSE [o |-> IF key \in DOMAIN o2.queue
                   THEN [o2 EXCEPT !.queue[key].status = "working"]
                   ELSE o2,
             ret |-> Client([nxt EXCEPT !.status = "working"])]

lib_getTicket(o) ==
    LET o1 == lib_checkAvailability(o)
        number == o1.ticketNumber + 1
        key == DecimalString(number)
        client == [status |-> "missing", id |-> number, value |-> Null]
    IN [o |-> [o1 EXCEPT !.ticketNumber = number,
                         !.justIssued = Append(@, number),
                         !.queue = [x \in DOMAIN o1.queue \cup {key} |->
                                       IF x = key THEN client ELSE o1.queue[x]]],
        ret |-> Num(number)]

RECURSIVE lib_join(_, _, _)
lib_join(o, ticket, data) ==
    IF isNumeric(ticket) /\ ~isVoid(data)
    THEN IF Lookup(o, ticket) = Undefined
         THEN [o |-> o, ret |-> Throw("TypeError")]
         ELSE [o |-> [o EXCEPT !.queue[toString(ticket)] =
                                   [@ EXCEPT !.value = data,
                                             !.id = toNumber(ticket),
                                             !.status = "pending"]],
               ret |-> Undefined]
    ELSE LET got == lib_getTicket(lib_checkAvailability(o))
             r == lib_join(got.o, got.ret, ticket)
         IN [o |-> r.o, ret |-> IF r.ret = Throw("TypeError") THEN r.ret ELSE Undefined]

lib_start(o) ==
    LET missing == {o.queue[x].id : x \in {y \in DOMAIN o.queue :
                                              o.queue[y].status = "missing"}}
    IN IF missing = {}
       THEN lib_next(o)
       ELSE [o |-> lib_handler(o, Error("Queue can't start yet, client No. "
                                           \o DecimalString(CHOOSE m \in missing :
                                                  \A n \in missing : m <= n)
                                           \o " is missing")),
             ret |-> Undefined]

(***************************************************************************)
(* What the calls so far amount to: the running method's result is         *)
(* written back to the fields, and the record of the call is kept.         *)
(***************************************************************************)
Range(seq) == {seq[i] : i \in 1..Len(seq)}

\* the tickets whose client became 'pending' in the call, with their values
NewlyAttached(before, after) ==
    {x \in DOMAIN after.queue :
        /\ after.queue[x].status = "pending"
        /\ \/ x \notin DOMAIN before.queue
           \/ before.queue[x] # after.queue[x]}

\* how far the calls since construction follow the scenario: getTicket calls,
\* then joins with the tickets, then next calls (current() may be called anywhere)
ScnOff == [ph |-> "off", k |-> 0, done |-> <<>>, j |-> 0, full |-> FALSE]

ScnStep(call, r) ==
    CASE scn.ph = "off" -> ScnOff
      [] call = "current" -> scn
      [] call = "getTicket" /\ scn.ph = "issue" ->
            IF r.ret = Undefined THEN [scn EXCEPT !.full = TRUE]
            ELSE [scn EXCEPT !.k = @ + 1]
      [] /\ call = "join" /\ scn.ph \in {"issue", "attach"}
         /\ r.ret = Bool(TRUE) /\ r.o.justIssued = <<>> ->
            LET new == {r.o.queue[x].id : x \in NewlyAttached(Self, r.o)}
            IN [scn EXCEPT !.ph = "attach",
                           !.done = [i \in DOMAIN scn.done \cup new |->
                                        IF i \in new THEN r.o.queue[DecimalString(i)].value
                                        ELSE scn.done[i]]]
      [] /\ call = "next" /\ scn.ph = "attach"
         /\ scn.k >= 1 /\ DOMAIN scn.done = 1..scn.k ->
            [scn EXCEPT !.ph = "serve", !.j = 1]
      [] call = "next" /\ scn.ph = "serve" /\ scn.j <= scn.k ->
            [scn EXCEPT !.j = @ + 1]
      [] OTHER -> ScnOff

Commit(r, call) ==
    /\ _status' = r.o.status
    /\ _queue' = r.o.queue
    /\ _ticketNumber' = r.o.ticketNumber
    /\ _currentTicket' = r.o.currentTicket
    /\ timers' = r.o.timers
    /\ handlerCalls' = r.o.handlerCalls
    /\ cbCalls' = r.o.cbCalls
    /\ justIssued' = r.o.justIssued
    /\ issued' = issued \cup Range(r.o.justIssued)
    /\ issuedEver' = issuedEver \cup Range(r.o.justIssued)
    /\ attached' = attached \cup {r.o.queue[x].id : x \in NewlyAttached(Self, r.o)}
    /\ ret' = r.ret
    /\ op' = call
    /\ scn' = ScnStep(call, r)
    /\ UNCHANGED <<_clientLimit, _ticketLifetime, _handler, now>>

\* the model's bounds on what a call may leave behind
Bounded(r) ==
    /\ r.o.ticketNumber <= MaxTicket
    /\ Cardinality(r.o.timers) <= MaxTimers

TicketArgs == {Num(n) : n \in 1..MaxTicket}
\* join(ticket, data), join(data), join(number) and join()
JoinArgs ==
    (TicketArgs \X Payloads) \cup ((Payloads \cup {Undefined}) \X {Undefined})
LifetimeArgs == {Undefined} \cup {Num(l) : l \in Lifetimes}

\* the options instances are constructed with
Options ==
    {[limit |-> 1, lifetime |-> Infinity, handler |-> "mock"],
     [limit |-> Infinity, lifetime |-> Infinity, handler |-> "custom"]}
    \cup {[limit |-> MaxLimit, lifetime |-> t, handler |-> "custom"] : t \in Lifetimes}


Init ==
    /\ _status = "empty"
    /\ _queue = EmptyQueue
    /\ _ticketNumber = 0
    /\ _currentTicket = 0
    /\ \E opt \in Options :
          /\ _clientLimit = opt.limit
          /\ _ticketLifetime = opt.lifetime
          /\ _handler = opt.handler
    /\ timers = {}
    /\ now = 0
    /\ op = "new"
    /\ ret = Undefined
    /\ handlerCalls = <<>>
    /\ cbCalls = <<>>
    /\ justIssued = <<>>
    /\ issued = {}
    /\ issuedEver = {}
    /\ attached = {}
    /\ evicted = <<>>
    /\ served = <<>>
    /\ scn = [ph |-> "issue", k |-> 0, done |-> <<>>, j |-> 0, full |-> FALSE]

\* an event that is no call of a public method
NoCall(event) ==
    /\ op' = event
    /\ ret' = Undefined
    /\ handlerCalls' = <<>>
    /\ cbCalls' = <<>>
    /\ justIssued' = <<>>

DoGetTicket(lifetime, cb) ==
    \E r \in {getTicket(Self, lifetime, cb, now)} :
       /\ Bounded(r)
       /\ Commit(r, "getTicket")
       /\ UNCHANGED <<evicted, served>>

DoJoin(ticket, data, cb) ==
    \E r \in {join(Self, ticket, data, cb, now)} :
       /\ Bounded(r)
       /\ Commit(r, "join")
       /\ UNCHANGED <<evicted, served>>

DoCurrent(cb) ==
    \E r \in {current(Self, cb)} :
       /\ Commit(r, "current")
       /\ UNCHANGED <<evicted, served>>

DoNext(cb) ==
    \E r \in {next(Self, cb, StackDepth)} :
       /\ _currentTicket < MaxCursor
       /\ Commit(r, "next")
       /\ served' = IF r.ret.k = "object"
                    THEN Append(served, [id |-> r.ret.id, filled |-> ~isVoid(r.ret.value)])
                    ELSE served
       /\ UNCHANGED evicted

\* reset() is not called while a timer armed before the previous reset is pending
DoReset ==
    LET o == reset(Self)
    IN /\ \A x \in timers : x.stale = 0
       /\ _status' = o.status
       /\ _queue' = o.queue
       /\ _ticketNumber' = o.ticketNumber
       /\ _currentTicket' = o.currentTicket
       /\ NoCall("reset")
       /\ issued' = {}
       /\ attached' = {}
       /\ evicted' = <<>>
       /\ served' = <<>>
       /\ scn' = ScnOff
       /\ timers' = {[x EXCEPT !.stale = @ + 1] : x \in timers}
       /\ UNCHANGED <<_clientLimit, _ticketLifetime, _handler, now, issuedEver>>

\* the callback of _createClient's setTimeout runs
TimerFires(x) ==
    LET o == _removeClient(Self, x.ticket)
    IN /\ x \in timers
       /\ now >= x.at
       /\ timers' = timers \ {x}
       /\ _queue' = o.queue
       /\ evicted' = IF _queue' # _queue /\ x.stale = 0
                     THEN [i \in DOMAIN evicted \cup {x.ticket} |->
                              IF i = x.ticket THEN x.at ELSE evicted[i]]
                     ELSE evicted
       /\ scn' = IF _queue' # _queue THEN ScnOff ELSE scn
       /\ NoCall("timer")
       /\ UNCHANGED <<_status, _ticketNumber, _currentTicket, _clientLimit,
                      _ticketLifetime, _handler, now, issued, issuedEver,
                      attached, served>>

\* the clock advances
Tick ==
    /\ now < MaxTime
    /\ now' = now + 1
    /\ NoCall("tick")
    /\ UNCHANGED <<_status, _queue, _ticketNumber, _currentTicket, _clientLimit,
                   _ticketLifetime, _handler, timers, issued, issuedEver,
                   attached, evicted, served, scn>>

Calls ==
    \/ \E lifetime \in LifetimeArgs, cb \in BOOLEAN : DoGetTicket(lifetime, cb)
    \/ \E args \in JoinArgs, cb \in BOOLEAN : DoJoin(args[1], args[2], cb)
    \/ \E cb \in BOOLEAN : DoCurrent(cb)
    \/ \E cb \in BOOLEAN : DoNext(cb)
    \/ \E x \in timers : TimerFires(x)
    \/ Tick

Next ==
    \/ Calls
    \/ DoReset

Spec == Init /\ [][Next]_vars

\* every timer that can be pending
TimerSet ==
    [ticket : 1..MaxTicket, at : 0..(MaxTime + Max(Lifetimes)), stale : {0, 1}]

\* the event loop runs the callback of every timer that is due
FairSpec == Spec /\ \A x \in TimerSet : WF_vars(TimerFires(x))

\* the instance when reset() is never called
SpecNoReset == Init /\ [][Calls]_vars

(***************************************************************************)
(* The plain variant as a state machine.                                   *)
(***************************************************************************)
lib_reset(o) ==
    [o EXCEPT !.status = "empty", !.queue = EmptyQueue,
              !.ticketNumber = 0, !.currentTicket = 0]

\* new SmartQueue(limit, handler)
InitSimple ==
    /\ _status = "empty"
    /\ _queue = EmptyQueue
    /\ _ticketNumber = 0
    /\ _currentTicket = 0
    /\ _clientLimit \in {1, Infinity}
    /\ _ticketLifetime = Infinity
    /\ _handler \in {"mock", "custom"}
    /\ timers = {}
    /\ now = 0
    /\ op = "new"
    /\ ret = Undefined
    /\ handlerCalls = <<>>
    /\ cbCalls = <<>>
    /\ justIssued = <<>>
    /\ issued = {}
    /\ issuedEver = {}
    /\ attached = {}
    /\ evicted = <<>>
    /\ served = <<>>
    /\ scn = ScnOff

LibGetTicket ==
    \E r \in {lib_getTicket(Self)} :
       /\ Bounded(r)
       /\ Commit(r, "getTicket")
       /\ UNCHANGED <<evicted, served>>

LibJoin(ticket, data) ==
    \E r \in {lib_join(Self, ticket, data)} :
       /\ Bounded(r)
       /\ Commit(r, "join")
       /\ UNCHANGED <<evicted, served>>

LibCurrent ==
    \E r \in {lib_current(Self)} :
       /\ Commit(r, "current")
       /\ UNCHANGED <<evicted, served>>

\* what next() and start() add to the record of the clients returned
Returned(r) ==
    IF r.ret.k = "object"
    THEN Append(served, [id |-> r.ret.id, filled |-> ~isVoid(r.ret.value)])
    ELSE served

LibNext ==
    \E r \in {lib_next(Self)} :
       /\ _currentTicket < MaxCursor
       /\ Commit(r, "next")
       /\ served' = Returned(r)
       /\ UNCHANGED evicted

LibStart ==
    \E r \in {lib_start(Self)} :
       /\ _currentTicket < MaxCursor
       /\ Commit(r, "start")
       /\ served' = Returned(r)
       /\ UNCHANGED evicted

LibReset ==
    LET o == lib_reset(Self)
    IN /\ _status' = o.status
       /\ _queue' = o.queue
       /\ _ticketNumber' = o.ticketNumber
       /\ _currentTicket' = o.currentTicket
       /\ NoCall("reset")
       /\ issued' = {}
       /\ attached' = {}
       /\ served' = <<>>
       /\ UNCHANGED <<_clientLimit, _ticketLifetime, _handler, timers, now,
                      issuedEver, evicted, scn>>

NextSimple ==
    \/ LibGetTicket
    \/ \E args \in JoinArgs : LibJoin(args[1], args[2])
    \/ LibCurrent
    \/ LibNext
    \/ LibStart
    \/ LibReset

SpecSimple == InitSimple /\ [][NextSimple]_vars

(***************************************************************************)
(* The claims.                                                             *)
(***************************************************************************)
\* how often next() has returned ticket id with its value since the last reset
TimesServed(id) ==
    Cardinality({i \in 1..Len(served) : served[i].id = id /\ served[i].filled})

\* C1: every ticket whose join succeeded is returned with its value by exactly
\* one later next(): it is never returned twice, and it has been returned once
\* when it is no longer in the queue.
C1_AttachedServedOnce ==
    \A id \in attached :
        /\ TimesServed(id) <= 1
        /\ DecimalString(id) \notin DOMAIN _queue => TimesServed(id) = 1

\* C2: the ids of the records successive next() calls return between two
\* resets are strictly increasing, whatever the order of the joins.
C2_ServedInTicketOrder ==
    \A i, j \in 1..Len(served) : i < j => served[i].id < served[j].id

\* two tickets were attached and both were returned by next()
C2_Witness ==
    /\ Len(served) >= 2
    /\ \A i \in 1..Len(served) : served[i].filled /\ served[i].id \in attached

LimitError == [err |-> Error("The queue has reached its limit."), status |-> "full"]

\* C3: getTicket called when the number of clients equals the limit reports the
\* limit error to the handler and to the callback, returns no ticket, and
\* leaves the queue and the ticket counter as they were.
C3_GetTicketAtLimit ==
    [][\A lifetime \in LifetimeArgs, cb \in BOOLEAN :
          (/\ op' = "getTicket"
           /\ _clientNumber(Self) = _clientLimit
           /\ DoGetTicket(lifetime, cb))
          => /\ ret' = Undefined
             /\ handlerCalls' = <<LimitError>>
             /\ cbCalls' = IF cb THEN <<LimitError>> ELSE <<>>
             /\ _queue' = _queue
             /\ _ticketNumber' = _ticketNumber]_vars

\* getTicket was refused at the limit, with a callback
C3_Witness ==
    /\ op = "getTicket"
    /\ ret = Undefined
    /\ cbCalls = <<LimitError>>
    /\ _clientNumber(Self) = _clientLimit

\* C4: the number of clients in the queue is at most the limit.
C4_AtMostLimit ==
    _clientLimit # Infinity => _clientNumber(Self) <= _clientLimit

\* a join without ticket was refused with the queue at its limit, after a reset
C4_Witness ==
    /\ op = "join"
    /\ ret = Undefined
    /\ handlerCalls = <<LimitError>>
    /\ _clientNumber(Self) = _clientLimit
    /\ issuedEver # issued

\* C5 as stated: no number a call issues was issued before by the instance,
\* and it is greater than every number issued before, resets included.
C5_NeverReissued ==
    [][\A i \in Range(justIssued') : \A j \in issuedEver : j < i]_vars

\* C5 as amended: the numbers issued since construction or the last reset are
\* strictly increasing and never repeat; reset() restarts the numbering.
C5_NeverReissuedSinceReset ==
    [][/\ \A i \in Range(justIssued') : \A j \in issued : j < i
       /\ \A m, n \in 1..Len(justIssued') : m < n => justIssued'[m] < justIssued'[n]]_vars

\* a second ticket was issued after a reset that a timer armed before it outlives
C5_Witness ==
    /\ justIssued # <<>>
    /\ Cardinality(issued) >= 2
    /\ \E x \in timers : x.stale = 1

\* the validity window of ticket id has elapsed: now > expiresAt, whether the
\* client is still in the queue or its timer has removed it
Elapsed(id) ==
    IF DecimalString(id) \in DOMAIN _queue
    THEN LET expiresAt == _queue[DecimalString(id)].expiresAt
         IN expiresAt # Infinity /\ now > expiresAt
    ELSE id \in DOMAIN evicted /\ now > evicted[id]

ExpiredError(id, status) ==
    [err |-> Error("Ticket No. " \o DecimalString(id) \o " has expired."),
     status |-> status]

\* C6: join(ticket, data) on a ticket whose validity window has elapsed fails with
\* the ticket-expired error and leaves the queue, the client included, as it was.
C6_JoinExpired ==
    [][\A id \in 1..MaxTicket, data \in Payloads, cb \in BOOLEAN :
          (/\ op' = "join"
           /\ Elapsed(id)
           /\ DoJoin(Num(id), data, cb))
          => /\ ret' = Bool(FALSE)
             /\ handlerCalls' = <<ExpiredError(id, _status)>>
             /\ cbCalls' = IF cb THEN <<ExpiredError(id, _status)>> ELSE <<>>
             /\ _queue' = _queue
             /\ _status' = _status
             /\ _ticketNumber' = _ticketNumber]_vars

\* a join was refused on ticket 1, whose timer has not fired after its expiry
C6_Witness ==
    /\ op = "join"
    /\ ret = Bool(FALSE)
    /\ handlerCalls = <<ExpiredError(1, _status)>>
    /\ "1" \in DOMAIN _queue
    /\ Elapsed(1)
    /\ _queue["1"].status = "missing"

\* C7: reset() leaves the queue projection empty, the status 'empty', the cursor
\* 0 and the options as they were, and the next ticket issued has number 1.
C7_Reset ==
    [][/\ op' = "reset" =>
            /\ queue([queue |-> _queue']) = EmptyQueue
            /\ _status' = "empty"
            /\ _currentTicket' = 0
            /\ _clientLimit' = _clientLimit
            /\ _ticketLifetime' = _ticketLifetime
            /\ _handler' = _handler
       /\ (op = "reset" /\ op' = "getTicket") => ret' = Num(1)
       /\ (op = "reset" /\ justIssued' # <<>>) => justIssued'[1] = 1]_vars

\* reset() was called with clients in the queue and a timer pending
C7_Witness ==
    /\ op = "reset"
    /\ issuedEver # {}
    /\ timers # {}

\* C8: on a fresh instance, after getTicket() and a join of data to that ticket,
\* current() before any next() returns {id: 1, value: data}.
C8_CurrentAfterJoin ==
    (/\ scn.ph = "attach"
     /\ scn.k = 1
     /\ DOMAIN scn.done = {1}
     /\ op = "current")
    => ret = Obj(1, scn.done[1])

Finished == [err |-> Null, status |-> "finished"]

\* C9: a next() that leaves the queue empty calls the handler, and the callback,
\* once, with (null, 'finished'), leaves the status 'empty', returns nothing and
\* keeps the ticket counter, so that the next ticket has the next number.
C9_NextEmpties ==
    [][/\ \A cb \in BOOLEAN :
            (/\ op' = "next"
             /\ DoNext(cb)
             /\ DOMAIN _queue' = {})
            => /\ handlerCalls' = <<Finished>>
               /\ cbCalls' = IF cb THEN <<Finished>> ELSE <<>>
               /\ _status' = "empty"
               /\ ret' = Undefined
               /\ _ticketNumber' = _ticketNumber
       /\ (/\ op = "next"
           /\ handlerCalls = <<Finished>>
           /\ op' = "getTicket")
          => ret' = Num(IF issued = {} THEN 1 ELSE Max(issued) + 1)]_vars

\* next() has emptied a queue it had served a client of, with a callback
C9_Witness ==
    /\ op = "next"
    /\ cbCalls = <<Finished>>
    /\ DOMAIN _queue = {}
    /\ served # <<>>
    /\ _status = "empty"

\* C10: on a fresh instance with limit n, the getTicket calls return 1, ..., n and
\* then fail with the limit error; once data is attached to the n tickets, the
\* next() calls return {id: 1, ...}, ..., {id: n, ...} with the attached values,
\* and the following next() reports 'finished'.
C10_Scenario ==
    _clientLimit # Infinity =>
        /\ scn.ph \in {"issue", "attach", "serve"} => scn.k <= _clientLimit
        /\ (scn.ph = "issue" /\ op = "getTicket") =>
              IF ret = Undefined
              THEN scn.k = _clientLimit /\ handlerCalls = <<LimitError>>
              ELSE ret = Num(scn.k)
        /\ (scn.ph = "serve" /\ scn.k = _clientLimit /\ op = "next") =>
              IF scn.j <= scn.k
              THEN ret = Obj(scn.j, scn.done[scn.j])
              ELSE ret = Undefined /\ handlerCalls = <<Finished>>

\* the whole scenario was run with a limit of two or more
C10_Witness ==
    /\ _clientLimit >= 2
    /\ scn.ph = "serve"
    /\ scn.k = _clientLimit
    /\ scn.full
    /\ scn.j = scn.k + 1
    /\ op = "next"

\* the clients of the queue are fewer than the limit
BelowLimit ==
    ~Geq(_clientNumber(Self), _clientLimit)

\* C11: join(data) without ticket, for every payload, numeric and absent ones
\* included: below the limit it creates exactly one client, numbered ticket
\* counter + 1, 'pending' and holding the payload; at the limit it reports the
\* limit error and leaves queue and counter as they were; no other client is
\* created or changed.
C11_UntargetedJoin ==
    [][\A data \in Payloads \cup {Undefined}, cb \in BOOLEAN :
          (/\ op' = "join"
           /\ DoJoin(data, Undefined, cb))
          => IF BelowLimit
             THEN LET key == DecimalString(_ticketNumber + 1)
                  IN /\ _ticketNumber' = _ticketNumber + 1
                     /\ DOMAIN _queue' = DOMAIN _queue \cup {key}
                     /\ _queue'[key].id = _ticketNumber + 1
                     /\ _queue'[key].status = "pending"
                     /\ _queue'[key].value = data
                     /\ \A x \in DOMAIN _queue : _queue'[x] = _queue[x]
             ELSE /\ handlerCalls' = <<LimitError>>
                  /\ _queue' = _queue
                  /\ _ticketNumber' = _ticketNumber]_vars

\* C12: when a join, with or without ticket, returns true, every client it
\* created or was given the ticket of is 'pending' and has a value.
C12_JoinLeavesNoMissing ==
    [][\A args \in JoinArgs, cb \in BOOLEAN :
          (/\ op' = "join"
           /\ DoJoin(args[1], args[2], cb)
           /\ ret' = Bool(TRUE))
          => \A x \in DOMAIN _queue' :
                (\/ x \notin DOMAIN _queue
                 \/ (~isVoid(args[2]) /\ x = toString(args[1])))
                => /\ _queue'[x].status = "pending"
                   /\ ~isVoid(_queue'[x].value)]_vars

\* the tickets of the clients that have joined ('pending' or 'working')
FilledKeys ==
    {x \in DOMAIN _queue : _queue[x].status \in {"pending", "working"}}

\* C13 as stated: the property queue holds exactly the ids of the clients that
\* have joined, each with its value, and no client that is still 'missing'.
C13_QueueOnlyFilled ==
    /\ DOMAIN queue(Self) = FilledKeys
    /\ \A x \in FilledKeys : queue(Self)[x] = _queue[x].value

\* C13 as amended: the property queue holds the id of every client in the
\* queue, with the value of those that have joined and null for those that are
\* still 'missing'.
C13_QueueEveryClient ==
    /\ DOMAIN queue(Self) = DOMAIN _queue
    /\ \A x \in FilledKeys : queue(Self)[x] = _queue[x].value /\ ~isVoid(queue(Self)[x])
    /\ \A x \in DOMAIN _queue \ FilledKeys : queue(Self)[x] = Null

\* the queue holds a client that has joined behind one that is still missing
C13_Witness ==
    /\ "1" \in DOMAIN _queue
    /\ _queue["1"].status = "missing"
    /\ "2" \in FilledKeys
    /\ queue(Self)["2"] = Str("a")

MissingError(id, status) ==
    [err |-> Error("Client No. " \o DecimalString(id) \o " is missing."),
     status |-> status]

\* C14: when next() finds a client that is still 'missing' at the new cursor, it
\* reports the client-missing error and returns no record; the client stays in
\* the queue as it was, and once it has joined a later next() returns it: no
\* next() removes a 'pending' client that was never returned with its value.
C14_NextOnMissing ==
    [][\A cb \in BOOLEAN :
          (/\ op' = "next"
           /\ DoNext(cb))
          => /\ LET key == DecimalString(_currentTicket')
                IN (key \in DOMAIN _queue /\ _queue[key].status = "missing")
                   => /\ handlerCalls' = <<MissingError(_currentTicket', _status)>>
                      /\ ret' = Undefined
                      /\ key \in DOMAIN _queue'
                      /\ _queue'[key] = _queue[key]
             /\ \A x \in DOMAIN _queue \ DOMAIN _queue' :
                   _queue[x].status = "pending"
                   => \E i \in 1..Len(served) :
                         served[i] = [id |-> _queue[x].id, filled |-> TRUE]]_vars

\* C15: when next() returns the {id, value} of a client that has joined, that
\* client is 'working' in the queue after the call, and at most one client is
\* 'working'.
C15_ServedIsWorking ==
    [][/\ (/\ op' = "next"
           /\ ret'.k = "object"
           /\ ~isVoid(ret'.value))
          => /\ DecimalString(ret'.id) \in DOMAIN _queue'
             /\ _queue'[DecimalString(ret'.id)].status = "working"
       /\ Cardinality({x \in DOMAIN _queue' : _queue'[x].status = "working"}) <= 1]_vars

\* C16: next() terminates from every reachable state: it does not recurse until
\* the call stack is exhausted, and the positions it skips in one call are at
\* most as many as the ticket counter.
C16_NextTerminates ==
    [][op' = "next"
       => /\ ret' # Throw("RangeError")
          /\ _currentTicket' - _currentTicket - 1 <= _ticketNumber]_vars

\* C17: current() called once a next() has emptied the queue, before any ticket
\* is issued, reports the queue-empty error to the handler and returns no
\* record; it does not throw.
C17_CurrentAfterFinished ==
    [][(/\ op = "next"
        /\ handlerCalls = <<Finished>>
        /\ op' = "current")
       => /\ ret' = Undefined
          /\ Len(handlerCalls') = 1
          /\ handlerCalls'[1].err = Error("The queue is empty")]_vars

\* ticket id is not in the queue and has not expired: it was never issued, or
\* its client joined, was returned by next() and was removed by the next() after
Unknown(id) ==
    \/ id > _ticketNumber
    \/ /\ DecimalString(id) \notin DOMAIN _queue
       /\ \E i \in 1..Len(served) : served[i] = [id |-> id, filled |-> TRUE]

\* C18: join(ticket, data) with a ticket that was never issued, or that is gone
\* for another reason than expiry, fails with an error that is not the
\* ticket-expired error, and changes neither the queue nor the counters.
C18_JoinUnknown ==
    [][\A id \in 1..MaxTicket, data \in Payloads, cb \in BOOLEAN :
          (/\ op' = "join"
           /\ Unknown(id)
           /\ DoJoin(Num(id), data, cb))
          => /\ ret' # Bool(TRUE)
             /\ Len(handlerCalls') = 1
             /\ handlerCalls'[1].err # ExpiredError(id, _status).err
             /\ _queue' = _queue
             /\ _ticketNumber' = _ticketNumber
             /\ _currentTicket' = _currentTicket]_vars

\* the pending timers whose callback removes ticket id
TimersOf(pending, id) ==
    {x \in pending : x.ticket = id}

\* C19: every 'missing' client issued with a finite lifetime has exactly one
\* pending expiration timer for its ticket, no client that has joined has any,
\* and no timer removes a client that has joined.
C19_TimersMatchMissing ==
    [][/\ \A key \in DOMAIN _queue' :
             LET client == _queue'[key]
             IN /\ (client.status = "missing" /\ client.expiresAt # Infinity)
                   => Cardinality(TimersOf(timers', client.id)) = 1
                /\ client.status # "missing"
                   => TimersOf(timers', client.id) = {}
       /\ op' = "timer"
          => \A key \in DOMAIN _queue \ DOMAIN _queue' :
                _queue[key].status = "missing"]_vars

\* C20: reset() cancels every pending expiration timer: none is pending when
\* reset() returns, and no timer armed before a reset fires after it.
C20_ResetCancelsTimers ==
    [][/\ op' = "reset" => timers' = {}
       /\ op' = "timer" => \A x \in timers \ timers' : x.stale = 0]_vars

\* the client of ticket id is still 'missing' after its finite lifetime
Overdue(id) ==
    /\ DecimalString(id) \in DOMAIN _queue
    /\ _queue[DecimalString(id)].status = "missing"
    /\ _queue[DecimalString(id)].expiresAt # Infinity
    /\ now >= _queue[DecimalString(id)].expiresAt

\* C21: a ticket issued with a finite lifetime that no client joins with is
\* removed from the queue once its lifetime has elapsed; no timer removes a
\* client before its expiresAt, nor a client issued with the lifetime Infinity.
C21_Expiration ==
    /\ \A id \in 1..MaxTicket :
          Overdue(id) ~> (/\ DecimalString(id) \in DOMAIN _queue
                             => _queue[DecimalString(id)].status # "missing")
    /\ [][op' = "timer"
          => \A key \in DOMAIN _queue \ DOMAIN _queue' :
                /\ _queue[key].expiresAt # Infinity
                /\ now >= _queue[key].expiresAt]_vars

\* C22: every client in the queue has an id at or after the cursor, and a
\* ticket just issued has a number greater than the cursor.
C22_NoClientBehindCursor ==
    /\ \A key \in DOMAIN _queue : _queue[key].id >= _currentTicket
    /\ \A number \in Range(justIssued) : number > _currentTicket

\* C23: between the calls of public methods the status is never 'finished', and
\* whenever it is 'full' the queue holds as many clients as the limit.
C23_StatusConsistent ==
    /\ _status # "finished"
    /\ _status = "full" => _clientNumber(Self) = _clientLimit

\* the ids next() and start() have returned since the last reset
ReturnedIds ==
    {served[i].id : i \in 1..Len(served)}

\* C24: in the plain variant, when next() returns a client, the client that was
\* current before the call is no longer in the queue and the returned one is in
\* the queue with status 'working'; when every ticket has joined and has been
\* returned, the next() that finds no client leaves the queue empty.
C24_SimpleNext ==
    [][(/\ op' = "next"
        /\ LibNext)
       => /\ ret'.k = "object"
             => /\ DecimalString(_currentTicket) \notin DOMAIN _queue'
                /\ DecimalString(ret'.id) \in DOMAIN _queue'
                /\ _queue'[DecimalString(ret'.id)].status = "working"
          /\ (/\ ret' = Undefined
              /\ issued = attached
              /\ attached \subseteq ReturnedIds)
             => DOMAIN _queue' = {}]_vars

====
